---- MODULE Spec2Model ----
(***************************************************************************)
(* A model of src/server.js: the users and feedback tables of feedback.db  *)
(* and the HTTP handlers that read and write them.                         *)
(*                                                                         *)
(* Conventions.                                                            *)
(*  - A JSON field that is missing from a request body is the JavaScript   *)
(*    value undefined: Undefined for string fields, NULL for user_id.      *)
(*  - SQL NULL and JavaScript null are NULL.                               *)
(*  - A handler that issues one SQL statement is one action: the statement *)
(*    and its completion callback, which only writes the response.  The    *)
(*    handlers that chain asynchronous calls (register, login) are one     *)
(*    action per call, and several of them can be in flight (req).         *)
(*  - res is the response the server sent last; beside status and json it  *)
(*    records what the request was and what was known when it started.     *)
(*  - sentiment_score is kept in hundredths (0.3 is 30).                   *)
(*  - The store does not fail: the err branches that answer 500 for a      *)
(*    failing database are left out, but for the constraints of the schema *)
(*    (UNIQUE, CHECK).  FOREIGN KEY(user_id) is declared and not enforced: *)
(*    the connection never turns foreign_keys on.                          *)
(*  - CURRENT_TIMESTAMP never goes back.                                   *)
(***************************************************************************)
EXTENDS Integers, Sequences, FiniteSets

VARIABLES
    users,        \* the rows of table users
    usersSeq,     \* sqlite_sequence of users (AUTOINCREMENT)
    feedback,     \* the rows of table feedback
    feedbackSeq,  \* sqlite_sequence of feedback (AUTOINCREMENT)
    now,          \* CURRENT_TIMESTAMP, in ticks
    req,          \* the register and login requests in flight, per connection
    res,          \* the last response sent
    registered,   \* history: the (username, password, userId) of every successful register
    posted,       \* history: the id and request body of every successful feedback insert
    removed       \* history: the ids whose delete answered 200

vars == <<users, usersSeq, feedback, feedbackSeq, now, req, res, registered, posted, removed>>

-----------------------------------------------------------------------------
(* Values *)

NULL == -1

Undefined == "<undefined>"

\* JavaScript truthiness of a string field: !v
FalsyStr(v) == v = Undefined \/ v = ""

\* JavaScript truthiness of a numeric field: !v
FalsyNum(v) == v = NULL \/ v = 0

\* v || d
OrStr(v, d) == IF FalsyStr(v) THEN d ELSE v

OrNum(v, d) == IF FalsyNum(v) THEN d ELSE v

Conns == {"c1", "c2"}

Usernames == {"alice", "bob"}

Passwords == {"pw123", "letmein"}

Salts == {"s1", "s2"}

Idle == [op |-> "none", pc |-> "idle"]

NoResponse == [op |-> "none", status |-> 0]

-----------------------------------------------------------------------------
(* bcrypt *)

\* bcrypt.hash(password, saltRounds): a fresh salt and the digest of salt and password
bcryptHash(password, salt) == [salt |-> salt, digest |-> <<salt, password>>]

\* bcrypt.compare gone wrong: the password re-hashed without the stored salt
bcryptCompareUnsalted(password, hash) == bcryptHash(password, "") = hash

\* bcrypt.compare(password, hash): re-hash with the stored salt
bcryptCompare(password, hash) == bcryptHash(password, hash.salt) = hash

-----------------------------------------------------------------------------
(* Table users *)

UserRows(username) == {u \in users : u.username = username}

\* users.username without UNIQUE
UsersInsertNeverFails(username) == FALSE

\* INSERT INTO users (username, password): username is UNIQUE
UsersInsertFails(username) == UserRows(username) # {}

UsersInsert(username, hash) ==
    users \cup {[id |-> usersSeq + 1, username |-> username, password |-> hash]}

\* what (username, password) is known to have registered as
RegisteredAs(username, password) ==
    {r.userId : r \in {x \in registered : x.username = username /\ x.password = password}}

-----------------------------------------------------------------------------
(* POST /api/register *)

RegisterStart(c, username, password) ==
    /\ req[c].pc = "idle"
    /\ IF FalsyStr(username) \/ FalsyStr(password)
       THEN /\ res' = [op |-> "register", status |-> 400,
                       json |-> [error |-> "Username and password required"]]
            /\ UNCHANGED req
       ELSE /\ req' = [req EXCEPT ![c] = [op |-> "register", pc |-> "hash",
                                          username |-> username, password |-> password,
                                          fresh |-> UserRows(username) = {}]]
            /\ UNCHANGED res
    /\ UNCHANGED <<users, usersSeq, feedback, feedbackSeq, now, registered, posted, removed>>

RegisterHash(c, salt) ==
    /\ req[c].op = "register" /\ req[c].pc = "hash"
    /\ req' = [req EXCEPT ![c] = [op |-> "register", pc |-> "insert",
                                  username |-> req[c].username, password |-> req[c].password,
                                  fresh |-> req[c].fresh,
                                  hash |-> bcryptHash(req[c].password, salt)]]
    /\ UNCHANGED <<users, usersSeq, feedback, feedbackSeq, now, res, registered, posted, removed>>

RegisterInsert(c) ==
    /\ req[c].op = "register" /\ req[c].pc = "insert"
    /\ IF UsersInsertFails(req[c].username)
       THEN /\ res' = [op |-> "register", status |-> 400,
                       json |-> [error |-> "User already exists or DB error"],
                       fresh |-> req[c].fresh]
            /\ req' = [req EXCEPT ![c] = Idle]
            /\ UNCHANGED <<users, usersSeq>>
       ELSE /\ users' = UsersInsert(req[c].username, req[c].hash)
            /\ usersSeq' = usersSeq + 1
            /\ req' = [req EXCEPT ![c] = [op |-> "register", pc |-> "select",
                                          username |-> req[c].username,
                                          password |-> req[c].password,
                                          fresh |-> req[c].fresh]]
            /\ UNCHANGED res
    /\ UNCHANGED <<feedback, feedbackSeq, now, registered, posted, removed>>

RegisterSelect(c) ==
    /\ req[c].op = "register" /\ req[c].pc = "select"
    /\ \E row \in UserRows(req[c].username) :
          /\ res' = [op |-> "register", status |-> 200,
                     json |-> [success |-> TRUE, userId |-> row.id],
                     fresh |-> req[c].fresh]
          /\ registered' = registered \cup
                 {[username |-> req[c].username, password |-> req[c].password,
                   userId |-> row.id]}
    /\ req' = [req EXCEPT ![c] = Idle]
    /\ UNCHANGED <<users, usersSeq, feedback, feedbackSeq, now, posted, removed>>

-----------------------------------------------------------------------------
(* POST /api/login *)

\* a response of its own to an unknown username
LoginNoRowTold == [status |-> 404, json |-> [error |-> "User not found"]]

\* if (err || !row) return res.status(400).json(...)
LoginNoRow == [status |-> 400, json |-> [error |-> "Invalid username or password"]]

\* if (err || !valid) return res.status(400).json(...)
LoginNotValid == [status |-> 400, json |-> [error |-> "Invalid username or password"]]

LoginStart(c, username, password) ==
    /\ req[c].pc = "idle"
    /\ IF FalsyStr(username) \/ FalsyStr(password)
       THEN /\ res' = [op |-> "login", status |-> 400,
                       json |-> [error |-> "Username and password required"]]
            /\ UNCHANGED req
       ELSE /\ req' = [req EXCEPT ![c] = [op |-> "login", pc |-> "get",
                                          username |-> username, password |-> password,
                                          expect |-> RegisteredAs(username, password)]]
            /\ UNCHANGED res
    /\ UNCHANGED <<users, usersSeq, feedback, feedbackSeq, now, registered, posted, removed>>

LoginGet(c) ==
    /\ req[c].op = "login" /\ req[c].pc = "get"
    /\ IF UserRows(req[c].username) = {}
       THEN /\ res' = [op |-> "login", status |-> LoginNoRow.status,
                       json |-> LoginNoRow.json,
                       expect |-> req[c].expect, found |-> FALSE]
            /\ req' = [req EXCEPT ![c] = Idle]
       ELSE /\ \E row \in UserRows(req[c].username) :
                 req' = [req EXCEPT ![c] = [op |-> "login", pc |-> "compare",
                                            username |-> req[c].username,
                                            password |-> req[c].password,
                                            expect |-> req[c].expect,
                                            row |-> [id |-> row.id, password |-> row.password]]]
            /\ UNCHANGED res
    /\ UNCHANGED <<users, usersSeq, feedback, feedbackSeq, now, registered, posted, removed>>

LoginCompare(c) ==
    /\ req[c].op = "login" /\ req[c].pc = "compare"
    /\ IF bcryptCompare(req[c].password, req[c].row.password)
       THEN res' = [op |-> "login", status |-> 200,
                    json |-> [success |-> TRUE, userId |-> req[c].row.id],
                    expect |-> req[c].expect, found |-> TRUE]
       ELSE res' = [op |-> "login", status |-> LoginNotValid.status,
                    json |-> LoginNotValid.json,
                    expect |-> req[c].expect, found |-> TRUE]
    /\ req' = [req EXCEPT ![c] = Idle]
    /\ UNCHANGED <<users, usersSeq, feedback, feedbackSeq, now, registered, posted, removed>>

-----------------------------------------------------------------------------
(* Sentiment analysis *)

\* vader.SentimentIntensityAnalyzer.polarity_scores(text).compound, in hundredths.
\* The lexicon is the library's; this table stands for it on the texts of the model.
polarity_scores(text) ==
    CASE text = "This is terrible and broken" -> -74
      [] text = "scores -0.31" -> -31
      [] text = "scores -0.3" -> -30
      [] text = "scores 0.3" -> 30
      [] text = "scores 0.31" -> 31
      [] text = "scores 0.5" -> 50
      [] text = "scores -0.5" -> -50
      [] text = "scores 0.2" -> 20
      [] OTHER -> 0

Threshold == 30

\* the thresholds taken inclusive
SentimentLabelInclusive(compound) ==
    IF compound >= Threshold THEN "positive"
    ELSE IF compound <= -Threshold THEN "negative"
    ELSE "neutral"

\* let sentiment_label = 'neutral'; if (compound > 0.3) ...; else if (compound < -0.3) ...
SentimentLabel(compound) ==
    IF compound > Threshold THEN "positive"
    ELSE IF compound < -Threshold THEN "negative"
    ELSE "neutral"

-----------------------------------------------------------------------------
(* Table feedback *)

Roles == {"guest", "user", "admin"}

\* role TEXT CHECK(role IN ('guest', 'user', 'admin'))
FeedbackCheckFails(role) == role \notin Roles

\* id INTEGER PRIMARY KEY without AUTOINCREMENT: one more than the largest id stored
FeedbackNextRowid ==
    IF feedback = {} THEN 1
    ELSE (CHOOSE r \in feedback : \A q \in feedback : q.id <= r.id).id + 1

\* id INTEGER PRIMARY KEY AUTOINCREMENT: one more than the largest id ever assigned
FeedbackNextId == feedbackSeq + 1

\* the row stored without the || defaults of the optional fields
FeedbackRowNoDefaults(body) ==
    [id |-> FeedbackNextId,
     user_id |-> body.user_id,
     username |-> body.username,
     role |-> body.role,
     feedback_type |-> body.feedback_type,
     feedback_text |-> body.feedback_text,
     sentiment_label |-> SentimentLabel(polarity_scores(body.feedback_text)),
     sentiment_score |-> polarity_scores(body.feedback_text),
     created_at |-> now]

\* the row INSERT INTO feedback (...) VALUES (?, ?, ?, ?, ?, ?, ?) stores
FeedbackRow(body) ==
    [id |-> FeedbackNextId,
     user_id |-> OrNum(body.user_id, NULL),
     username |-> OrStr(body.username, ""),
     role |-> body.role,
     feedback_type |-> OrStr(body.feedback_type, ""),
     feedback_text |-> body.feedback_text,
     sentiment_label |-> SentimentLabel(polarity_scores(body.feedback_text)),
     sentiment_score |-> polarity_scores(body.feedback_text),
     created_at |-> now]

\* if (!feedback_text || !role || (!username && !user_id))
FeedbackMissing(body) ==
    \/ FalsyStr(body.feedback_text)
    \/ FalsyStr(body.role)
    \/ FalsyStr(body.username) /\ FalsyNum(body.user_id)

\* a numeric route parameter, as text
Digits == <<"0", "1", "2", "3", "4", "5", "6", "7", "8", "9">>

isNaN(s) == \A i \in 1..Len(Digits) : Digits[i] # s

\* the number a numeric parameter compares as against an INTEGER column
Number(s) == (CHOOSE i \in 1..Len(Digits) : Digits[i] = s) - 1

RECURSIVE Perms(_)
\* the sequences that hold each element of S once
Perms(S) ==
    IF S = {} THEN {<<>>}
    ELSE UNION {{<<x>> \o p : p \in Perms(S \ {x})} : x \in S}

\* ORDER BY created_at, the DESC left out
OrderByCreatedAtAsc(rows) ==
    {s \in Perms(rows) : \A i \in 1..(Len(s) - 1) : s[i].created_at <= s[i + 1].created_at}

\* ORDER BY created_at DESC: rows with equal created_at come in any order
OrderByCreatedAtDesc(rows) ==
    {s \in Perms(rows) : \A i \in 1..(Len(s) - 1) : s[i].created_at >= s[i + 1].created_at}

-----------------------------------------------------------------------------
(* POST /api/feedback *)

PostFeedback(body) ==
    /\ IF FeedbackMissing(body)
       THEN /\ res' = [op |-> "feedback", status |-> 400,
                       json |-> [error |-> "Missing feedback fields"], body |-> body]
            /\ UNCHANGED <<feedback, feedbackSeq, posted>>
       ELSE IF FeedbackCheckFails(body.role)
       THEN /\ res' = [op |-> "feedback", status |-> 500,
                       json |-> [error |-> "Failed to save feedback"], body |-> body]
            /\ UNCHANGED <<feedback, feedbackSeq, posted>>
       ELSE /\ feedback' = feedback \cup {FeedbackRow(body)}
            /\ feedbackSeq' = feedbackSeq + 1
            /\ posted' = posted \cup {[id |-> FeedbackRow(body).id, body |-> body]}
            /\ res' = [op |-> "feedback", status |-> 200,
                       json |-> [success |-> TRUE], body |-> body]
    /\ UNCHANGED <<users, usersSeq, now, req, registered, removed>>

-----------------------------------------------------------------------------
(* DELETE /api/delete-feedback/:id *)

\* DELETE FROM feedback WHERE id = ?
FeedbackDelete(id) == {r \in feedback : r.id # Number(id)}

DeleteFeedback(id) ==
    /\ IF isNaN(id)
       THEN /\ res' = [op |-> "delete", status |-> 400,
                       json |-> [success |-> FALSE, message |-> "Invalid feedback ID."],
                       id |-> id]
            /\ UNCHANGED <<feedback, removed>>
       ELSE /\ feedback' = FeedbackDelete(id)
            /\ IF Cardinality(feedback) - Cardinality(feedback') > 0
               THEN /\ res' = [op |-> "delete", status |-> 200,
                               json |-> [success |-> TRUE,
                                         message |-> "Feedback deleted successfully."],
                               id |-> id, again |-> Number(id) \in removed,
                               stored |-> Number(id) \in {p.id : p \in posted} \ removed]
                    /\ removed' = removed \cup {Number(id)}
               ELSE /\ res' = [op |-> "delete", status |-> 404,
                               json |-> [success |-> FALSE,
                                         message |-> "Feedback not found."],
                               id |-> id, again |-> Number(id) \in removed,
                               stored |-> Number(id) \in {p.id : p \in posted} \ removed]
                    /\ UNCHANGED removed
    /\ UNCHANGED <<users, usersSeq, feedbackSeq, now, req, registered, posted>>

-----------------------------------------------------------------------------
(* GET /api/all-feedback and GET /api/feedback/user/:userId *)

GetAllFeedback ==
    /\ \E rows \in OrderByCreatedAtDesc(feedback) :
          res' = [op |-> "all-feedback", status |-> 200, json |-> rows]
    /\ UNCHANGED <<users, usersSeq, feedback, feedbackSeq, now, req, registered,
                   posted, removed>>

\* SELECT * FROM feedback WHERE user_id = ?: NULL equals nothing, and neither does
\* a parameter that is no number
FeedbackOfUser(userId) ==
    {r \in feedback : ~isNaN(userId) /\ r.user_id # NULL /\ r.user_id = Number(userId)}

GetUserFeedback(userId) ==
    /\ \E rows \in OrderByCreatedAtDesc(FeedbackOfUser(userId)) :
          res' = [op |-> "user-feedback", status |-> 200, json |-> rows,
                  userId |-> userId]
    /\ UNCHANGED <<users, usersSeq, feedback, feedbackSeq, now, req, registered,
                   posted, removed>>

-----------------------------------------------------------------------------
(* The clock *)

MaxTime == 2

TicksPerDay == 2

Tick ==
    /\ now < MaxTime
    /\ now' = now + 1
    /\ UNCHANGED <<users, usersSeq, feedback, feedbackSeq, req, res, registered,
                   posted, removed>>

-----------------------------------------------------------------------------
(* GET /api/sentiment-summary *)

\* the summary zero-filled: an entry for each of the three labels
GroupByEveryLabel ==
    {[sentiment_label |-> l,
      count |-> Cardinality({r \in feedback : r.sentiment_label = l})] :
        l \in {"positive", "neutral", "negative"}}

\* SELECT sentiment_label, COUNT(*) as count FROM feedback GROUP BY sentiment_label
GroupBySentimentLabel ==
    {[sentiment_label |-> l,
      count |-> Cardinality({r \in feedback : r.sentiment_label = l})] :
        l \in {r.sentiment_label : r \in feedback}}

\* the groups come in no stated order
GetSentimentSummary ==
    /\ \E rows \in Perms(GroupBySentimentLabel) :
          res' = [op |-> "sentiment-summary", status |-> 200, json |-> rows]
    /\ UNCHANGED <<users, usersSeq, feedback, feedbackSeq, now, req, registered,
                   posted, removed>>

-----------------------------------------------------------------------------
(* GET /api/avg-sentiment-over-time *)

\* DATE(created_at): the day of a timestamp
DATE(t) == t \div TicksPerDay

RECURSIVE SumOfScores(_)
SumOfScores(rows) ==
    IF rows = {} THEN 0
    ELSE LET r == CHOOSE x \in rows : TRUE
         IN  r.sentiment_score + SumOfScores(rows \ {r})

Abs(n) == IF n < 0 THEN -n ELSE n

RECURSIVE GCD(_, _)
GCD(a, b) == IF b = 0 THEN a ELSE GCD(b, a % b)

\* AVG(sentiment_score) of a group: the sum over the count, a fraction of hundredths
\* in lowest terms
AVG(rows) ==
    LET sum == SumOfScores(rows)
        n == Cardinality(rows)
        g == GCD(Abs(sum), n)
    IN  [num |-> sum \div g, den |-> n \div g]

\* GROUP BY created_at: a group for each timestamp, not for each day
GroupByTimestamp ==
    {[date |-> DATE(t), avg_score |-> AVG({r \in feedback : r.created_at = t})] :
        t \in {r.created_at : r \in feedback}}

\* GROUP BY DATE(created_at)
GroupByDate ==
    {[date |-> d, avg_score |-> AVG({r \in feedback : DATE(r.created_at) = d})] :
        d \in {DATE(r.created_at) : r \in feedback}}

\* ORDER BY DATE(created_at)
OrderByDate(groups) ==
    {s \in Perms(groups) : \A i \in 1..(Len(s) - 1) : s[i].date <= s[i + 1].date}

GetAvgSentimentOverTime ==
    /\ \E rows \in OrderByDate(GroupByDate) :
          res' = [op |-> "avg-sentiment-over-time", status |-> 200, json |-> rows]
    /\ UNCHANGED <<users, usersSeq, feedback, feedbackSeq, now, req, registered,
                   posted, removed>>

-----------------------------------------------------------------------------

Init ==
    /\ users = {}
    /\ usersSeq = 0
    /\ feedback = {}
    /\ feedbackSeq = 0
    /\ now = 0
    /\ req = [c \in Conns |-> Idle]
    /\ res = NoResponse
    /\ registered = {}
    /\ posted = {}
    /\ removed = {}

\* the route parameters tried: one that is no number, and the numbers up to max
IdParams(max) == {"abc"} \cup {Digits[n + 1] : n \in 0..max}

(* Registers and logins on two connections at once, among feedback inserts and
   deletes *)

MaxOther == 1

OtherBodies ==
    [user_id : {1}, username : {"alice"}, role : {"user"}, feedback_type : {"bug"},
     feedback_text : {"This is terrible and broken"}]

Credentials == (Usernames \cup {Undefined, ""}) \X (Passwords \cup {Undefined})

\* the steps of the registers and logins on the connections conns, bcrypt drawing
\* its salts from salts
AuthNext(conns, salts) ==
    \/ \E c \in conns, cr \in Credentials : RegisterStart(c, cr[1], cr[2])
    \/ \E c \in conns, s \in salts : RegisterHash(c, s)
    \/ \E c \in conns : RegisterInsert(c)
    \/ \E c \in conns : RegisterSelect(c)
    \/ \E c \in conns, cr \in Credentials : LoginStart(c, cr[1], cr[2])
    \/ \E c \in conns : LoginGet(c)
    \/ \E c \in conns : LoginCompare(c)

\* bcrypt draws one salt here: the salt is read back by bcrypt.compare alone, from
\* the stored hash, and SpecLogin draws both
NextAuth ==
    \/ AuthNext(Conns, {"s1"})
    \/ feedbackSeq < MaxOther /\ \E body \in OtherBodies : PostFeedback(body)
    \/ \E id \in IdParams(MaxOther) \ {"abc", "0"} : DeleteFeedback(id)

SpecAuth == Init /\ [][NextAuth]_vars

(* Registers and logins one after the other, on one connection *)

NextLogin == AuthNext({"c1"}, Salts)

SpecLogin == Init /\ [][NextLogin]_vars

(* Feedback of every shape, into a table of at most MaxInserted rows *)

MaxInserted == 1

InsertBodies ==
    [user_id : {NULL, 0, 1}, username : {Undefined, "alice"},
     role : {Undefined, "guest", "user", "admin", "manager"},
     feedback_type : {Undefined, "bug"},
     feedback_text : {"", "This is terrible and broken"}]

NextInsert ==
    \/ feedbackSeq < MaxInserted /\ \E body \in InsertBodies : PostFeedback(body)
    \/ GetAllFeedback
    \/ \E userId \in IdParams(1) : GetUserFeedback(userId)
    \/ Tick

SpecInsert == Init /\ [][NextInsert]_vars

(* Inserts, deletes and listings of the feedback of two users *)

MaxStored == 3

StoreBodies ==
    [user_id : {1, 2}, username : {"alice"}, role : {"user"},
     feedback_type : {"bug"}, feedback_text : {"This is terrible and broken"}]

NextStore ==
    \/ feedbackSeq < MaxStored /\ \E body \in StoreBodies : PostFeedback(body)
    \/ \E id \in IdParams(MaxStored) : DeleteFeedback(id)
    \/ GetAllFeedback
    \/ \E userId \in IdParams(2) : GetUserFeedback(userId)
    \/ Tick

SpecStore == Init /\ [][NextStore]_vars

(* The labels of texts that score at and around the thresholds *)

MaxClassified == 4

ClassifyBodies ==
    [user_id : {NULL}, username : {"guest"}, role : {"guest"},
     feedback_type : {Undefined},
     feedback_text : {"scores -0.31", "scores -0.3", "no lexicon word", "scores 0.3",
                      "scores 0.31"}]

NextClassify ==
    \/ feedbackSeq < MaxClassified /\ \E body \in ClassifyBodies : PostFeedback(body)
    \/ \E id \in IdParams(MaxClassified) \ {"abc", "0"} : DeleteFeedback(id)

SpecClassify == Init /\ [][NextClassify]_vars

(* The aggregates over feedback of three scores, over two days *)

MaxAggregated == 3

AggregateBodies ==
    [user_id : {1}, username : {"alice"}, role : {"user"}, feedback_type : {"bug"},
     feedback_text : {"scores 0.5", "scores -0.5", "scores 0.2"}]

NextAggregate ==
    \/ feedbackSeq < MaxAggregated /\ \E body \in AggregateBodies : PostFeedback(body)
    \/ \E id \in IdParams(MaxAggregated) : DeleteFeedback(id)
    \/ GetSentimentSummary
    \/ GetAvgSentimentOverTime
    \/ Tick

SpecAggregate == Init /\ [][NextAggregate]_vars

-----------------------------------------------------------------------------
(* Properties of registration and login *)

\* a login that got as far as the users table has been answered
LoginAnswered == res.op = "login" /\ "found" \in DOMAIN res

\* C1: a login with a username and password that a register had already answered
\* with userId u succeeds and returns u, whatever registers, logins, feedback
\* inserts and deletes ran since or run meanwhile.
C1_RegisteredLoginSucceeds ==
    (LoginAnswered /\ res.expect # {})
        => res.status = 200 /\ res.expect = {res.json.userId}

\* C1 happens: both users exist, feedback was inserted and deleted, and the login
\* of a registered pair returned the second user's id.
C1_Witness ==
    /\ LoginAnswered /\ res.expect = {2} /\ res.status = 200
    /\ Cardinality(users) = 2
    /\ removed # {}

UniqueUsernames == \A u, v \in users : u.username = v.username => u = v

\* C2, of one INSERT of a register: a username that has a row fails with 400 and
\* leaves the users table as it was; a username that has none gets its row.
RegisterInsertOutcome(c) ==
    IF \E u \in users : u.username = req[c].username
    THEN /\ users' = users
         /\ res'.op = "register" /\ res'.status = 400
         /\ res'.json = [error |-> "User already exists or DB error"]
    ELSE /\ \E u \in users' : u.username = req[c].username /\ users' = users \cup {u}
         /\ req'[c].pc = "select"

\* C2: a register of a username that exists fails with 400 and changes no user
\* row, no two user rows ever share a username, no username is registered with
\* success twice, and of two registers racing for a new username the first to
\* insert succeeds and the other fails with 400.
C2_UniqueUsername ==
    /\ [](UniqueUsernames /\ \A r, q \in registered : r.username = q.username => r = q)
    /\ [][\A c \in Conns : RegisterInsert(c) => RegisterInsertOutcome(c)]_vars

\* C2 happens: a register that started when its username was new lost the race
\* and was answered 400, the winner's row being the only one of that username.
C2_Witness ==
    /\ res.op = "register" /\ res.status = 400 /\ "fresh" \in DOMAIN res /\ res.fresh
    /\ Cardinality(users) = 1

\* C10: a failed login's response (status and body) is the same whether the
\* username has no row or the password does not match the row's hash, and no step
\* of a login changes a table.
C10_LoginFailuresAlike ==
    /\ [][(/\ LoginAnswered /\ res.status # 200
           /\ res'.op = "login" /\ "found" \in DOMAIN res' /\ res'.status # 200
           /\ res.found # res'.found)
            => res'.status = res.status /\ res'.json = res.json]_vars
    /\ [][(\E c \in Conns : LoginGet(c) \/ LoginCompare(c)
                             \/ \E cr \in Credentials : LoginStart(c, cr[1], cr[2]))
            => UNCHANGED <<users, usersSeq, feedback, feedbackSeq>>]_vars

\* C10 happens: a login with a wrong password for an existing username failed.
C10_Witness ==
    /\ LoginAnswered /\ res.found /\ res.status = 400
    /\ users # {}

-----------------------------------------------------------------------------
(* Properties of the sentiment label *)

\* C3: every stored row's label is the one its score alone gives: positive iff
\* the score is above 0.3, negative iff it is below -0.3, neutral otherwise; so
\* 0.3 and -0.3 are neutral, 0.31 is positive and -0.31 negative.
C3_LabelFromScore ==
    \A r \in feedback :
        /\ r.sentiment_label = "positive" <=> r.sentiment_score > 30
        /\ r.sentiment_label = "negative" <=> r.sentiment_score < -30
        /\ r.sentiment_label = "neutral" <=> (r.sentiment_score >= -30 /\ r.sentiment_score <= 30)

\* C3 happens: rows scoring 0.3, 0.31, -0.3 and -0.31 are stored together.
C3_Witness ==
    /\ \E r \in feedback : r.sentiment_score = 30 /\ r.sentiment_label = "neutral"
    /\ \E r \in feedback : r.sentiment_score = 31 /\ r.sentiment_label = "positive"
    /\ \E r \in feedback : r.sentiment_score = -30 /\ r.sentiment_label = "neutral"
    /\ \E r \in feedback : r.sentiment_score = -31 /\ r.sentiment_label = "negative"

-----------------------------------------------------------------------------
(* Properties of feedback inserts *)

\* C4: an insert whose feedback_text is empty or whose role is none of guest,
\* user, admin is answered 400.
C4_InvalidInputIs400 ==
    (/\ res.op = "feedback"
     /\ \/ res.body.feedback_text \in {Undefined, ""}
        \/ res.body.role \notin {"guest", "user", "admin"})
        => res.status = 400

\* the listed record r is the submitted body: each field equal, an absent
\* username or feedback_type read back as "", an absent user_id as null
ReadsBackAsSubmitted(body, r) ==
    /\ r.user_id = body.user_id
    /\ r.username = (IF body.username = Undefined THEN "" ELSE body.username)
    /\ r.role = body.role
    /\ r.feedback_type = (IF body.feedback_type = Undefined THEN "" ELSE body.feedback_type)
    /\ r.feedback_text = body.feedback_text

\* as ReadsBackAsSubmitted, a user_id of 0 read back as null too
ReadsBack(body, r) ==
    /\ r.user_id = (IF body.user_id = 0 THEN NULL ELSE body.user_id)
    /\ r.username = (IF body.username = Undefined THEN "" ELSE body.username)
    /\ r.role = body.role
    /\ r.feedback_type = (IF body.feedback_type = Undefined THEN "" ELSE body.feedback_type)
    /\ r.feedback_text = body.feedback_text

\* an id and a created_at were assigned
WellFormed(r) == r.id \in 1..feedbackSeq /\ r.created_at \in 0..now

\* C9 as claimed: every insert with a non-empty feedback_text and a role of the
\* three succeeds, and every listing after it holds its record as submitted.
C9_RoundTripAsClaimed ==
    /\ (/\ res.op = "feedback"
        /\ res.body.feedback_text \notin {Undefined, ""}
        /\ res.body.role \in {"guest", "user", "admin"})
           => /\ res.status = 200
              /\ \E p \in posted : p.id = feedbackSeq /\ p.body = res.body
    /\ res.op = "all-feedback" =>
          \A p \in posted : p.id \notin removed =>
              \E i \in 1..Len(res.json) :
                  /\ res.json[i].id = p.id
                  /\ ReadsBackAsSubmitted(p.body, res.json[i])
                  /\ WellFormed(res.json[i])
    /\ (res.op = "user-feedback" /\ ~isNaN(res.userId)) =>
          \A p \in posted :
              (p.id \notin removed /\ p.body.user_id # NULL
                  /\ p.body.user_id = Number(res.userId)) =>
                  \E i \in 1..Len(res.json) :
                      /\ res.json[i].id = p.id
                      /\ ReadsBackAsSubmitted(p.body, res.json[i])
                      /\ WellFormed(res.json[i])

\* C9, amended: an insert with a non-empty feedback_text, a role of the three and
\* a non-empty username or a non-zero user_id succeeds; every listing of all
\* feedback after it holds its record, with an id and a created_at assigned and
\* the other fields as submitted (an absent username or feedback_type as "", an
\* absent or zero user_id as null), and so does every listing of the feedback of
\* its user_id when that was given and not zero.
C9_RoundTrip ==
    /\ (/\ res.op = "feedback"
        /\ res.body.feedback_text \notin {Undefined, ""}
        /\ res.body.role \in {"guest", "user", "admin"}
        /\ \/ res.body.username \notin {Undefined, ""}
           \/ res.body.user_id \notin {NULL, 0})
           => /\ res.status = 200
              /\ \E p \in posted : p.id = feedbackSeq /\ p.body = res.body
    /\ res.op = "all-feedback" =>
          \A p \in posted : p.id \notin removed =>
              \E i \in 1..Len(res.json) :
                  /\ res.json[i].id = p.id
                  /\ ReadsBack(p.body, res.json[i])
                  /\ WellFormed(res.json[i])
    /\ (res.op = "user-feedback" /\ ~isNaN(res.userId)) =>
          \A p \in posted :
              (p.id \notin removed /\ p.body.user_id \notin {NULL, 0}
                  /\ p.body.user_id = Number(res.userId)) =>
                  \E i \in 1..Len(res.json) :
                      /\ res.json[i].id = p.id
                      /\ ReadsBack(p.body, res.json[i])
                      /\ WellFormed(res.json[i])

\* C9 happens: feedback of user 1 that gave no username and no feedback_type is
\* listed for user 1 after the clock moved on.
C9_Witness ==
    /\ res.op = "user-feedback" /\ res.userId = "1" /\ Len(res.json) = 1
    /\ \E p \in posted :
          /\ p.body.username = Undefined /\ p.body.feedback_type = Undefined
          /\ res.json[1].id = p.id
    /\ res.json[1].username = "" /\ res.json[1].feedback_type = ""
    /\ res.json[1].created_at < now

-----------------------------------------------------------------------------
(* Properties of deletes and of the order of listings *)

\* C5: the delete of a stored row's id is answered 200; from then on no listing
\* of all feedback holds a row of that id and every delete of that id is
\* answered 404, whatever was inserted or deleted in between.
C5_DeletedStaysDeleted ==
    /\ \A r \in feedback : r.id \notin removed
    /\ res.op = "all-feedback" => \A i \in 1..Len(res.json) : res.json[i].id \notin removed
    /\ (res.op = "delete" /\ "again" \in DOMAIN res) =>
          /\ res.again => res.status = 404
          /\ res.stored => res.status = 200

\* C5 happens: a second delete of an id was answered 404 after later inserts,
\* one of them deleted as well.
C5_Witness ==
    /\ res.op = "delete" /\ "again" \in DOMAIN res /\ res.again /\ res.status = 404
    /\ Cardinality(removed) = 2
    /\ feedback # {}

\* the row of the last insert, while it is stored
LastInserted == {r \in feedback : r.id = feedbackSeq}

\* C8 as claimed: while the row of the last insert is stored it is the first
\* element of the listing of all feedback and of the listing of its user's
\* feedback, also when other rows carry its created_at.
C8_NewestFirstAsClaimed ==
    /\ (res.op = "all-feedback" /\ LastInserted # {}) => res.json[1].id = feedbackSeq
    /\ (res.op = "user-feedback" /\ ~isNaN(res.userId)) =>
          \A r \in LastInserted :
              r.user_id = Number(res.userId) => res.json[1].id = feedbackSeq

\* in rows, the row of id comes before every row of an earlier created_at, and
\* first when every other row is of an earlier created_at
BeforeEarlier(rows, id) ==
    \E i \in 1..Len(rows) :
        /\ rows[i].id = id
        /\ \A j \in 1..Len(rows) : rows[j].created_at < rows[i].created_at => i < j
        /\ (\A j \in 1..Len(rows) : j # i => rows[j].created_at < rows[i].created_at)
              => i = 1

\* C8, amended: while the row of the last insert is stored, it comes before every
\* row of an earlier created_at in the listing of all feedback and in the listing
\* of its user's feedback, so it is the first element when every other listed row
\* is of an earlier created_at; rows that carry its created_at may come before it.
C8_NewestFirst ==
    /\ (res.op = "all-feedback" /\ LastInserted # {}) =>
          BeforeEarlier(res.json, feedbackSeq)
    /\ (res.op = "user-feedback" /\ ~isNaN(res.userId)) =>
          \A r \in LastInserted :
              r.user_id = Number(res.userId) => BeforeEarlier(res.json, feedbackSeq)

\* C8 happens: the listing of a user's feedback begins with the row of the last
\* insert, ahead of an older row of that user.
C8_Witness ==
    /\ res.op = "user-feedback" /\ Len(res.json) >= 2
    /\ res.json[1].id = feedbackSeq
    /\ res.json[2].created_at < res.json[1].created_at
    /\ Cardinality(feedback) = 3

-----------------------------------------------------------------------------
(* Properties of the aggregates *)

RECURSIVE SumOfCounts(_)
SumOfCounts(rows) == IF rows = <<>> THEN 0 ELSE Head(rows).count + SumOfCounts(Tail(rows))

\* C6: the sentiment summary has exactly one entry for each label that some
\* stored row carries, no entry of another label or of count zero, and counts
\* that add up to the number of stored rows.
C6_SummaryCounts ==
    res.op = "sentiment-summary" =>
        /\ \A r \in feedback :
              Cardinality({i \in 1..Len(res.json) :
                              res.json[i].sentiment_label = r.sentiment_label}) = 1
        /\ \A i \in 1..Len(res.json) :
              /\ res.json[i].count > 0
              /\ \E r \in feedback : r.sentiment_label = res.json[i].sentiment_label
        /\ SumOfCounts(res.json) = Cardinality(feedback)

\* C6 happens: three rows of two labels are summarised.
C6_Witness ==
    /\ res.op = "sentiment-summary" /\ Len(res.json) = 2
    /\ Cardinality(feedback) = 3

\* the day a row was created on
DayOf(r) == r.created_at \div TicksPerDay

RECURSIVE ScoresOfDay(_, _)
\* the sum of the scores of the stored rows of ids 1..n created on day d
ScoresOfDay(d, n) ==
    IF n = 0 THEN 0
    ELSE ScoresOfDay(d, n - 1)
         + (IF \E r \in feedback : r.id = n /\ DayOf(r) = d
            THEN (CHOOSE r \in feedback : r.id = n).sentiment_score ELSE 0)

\* C7: the averages over time have exactly one entry for each day some stored row
\* was created on and none for another day, in ascending order of day, and each
\* entry's average is the sum of that day's scores divided by their number.
C7_DailyAverages ==
    res.op = "avg-sentiment-over-time" =>
        /\ \A r \in feedback :
              Cardinality({i \in 1..Len(res.json) : res.json[i].date = DayOf(r)}) = 1
        /\ \A i \in 1..Len(res.json) :
              /\ \E r \in feedback : DayOf(r) = res.json[i].date
              /\ res.json[i].avg_score.den > 0
              /\ res.json[i].avg_score.num
                     * Cardinality({r \in feedback : DayOf(r) = res.json[i].date})
                 = res.json[i].avg_score.den * ScoresOfDay(res.json[i].date, feedbackSeq)
        /\ \A i, j \in 1..Len(res.json) : i < j => res.json[i].date < res.json[j].date

\* C7 happens: scores 0.5, -0.5 and 0.2 on one day average to 0.2 / 3 = 0.0667.
C7_Witness ==
    /\ res.op = "avg-sentiment-over-time"
    /\ {r.sentiment_score : r \in feedback} = {50, -50, 20}
    /\ res.json = <<[date |-> 0, avg_score |-> [num |-> 20, den |-> 3]]>>

====
